---- MODULE Spec2Model ----
(***************************************************************************)
(* Progressive-disclosure search over the analysis-method registry         *)
(* (search.ts / methodIndex.ts) and the type-definition tool               *)
(* (typeGenerator.ts / mcp-server.ts).                                     *)
(*                                                                         *)
(* Strings are sequences of one-character strings, so that the substring,  *)
(* case-folding and word-splitting operations of the source are computed   *)
(* rather than assumed.  A JavaScript object with optional properties is a  *)
(* function whose DOMAIN holds the properties that are present.            *)
(***************************************************************************)
EXTENDS Integers, Sequences, FiniteSets, TLC

VARIABLES
  registry,   \* which registry the module constant ANALYSIS_METHODS holds
  params,     \* the SearchParams of the call
  pc,         \* "call" before searchAnalysisMethods runs, "done" after
  matches,    \* the local `matches` after filter and sort (scored methods)
  result,     \* the returned AnalysisMethod[]
  typeMap,         \* which type map getTypeDefinition and getNestedTypes hold
  args,            \* the arguments of the getTypeDefinition tool call
  types,           \* the array `types` of getTypeDefinitions
  processedTypes,  \* the set `processedTypes` of getTypeDefinitions
  stack,           \* the calls of addTypeDefinition in progress: for each loop
                   \* over names, the names still to come and their depth
  response,        \* what the call answers
  server,          \* which version of mcp-server.ts runs: the tool names it knows
  request          \* the request being handled: its kind, its tool name or its uri

\* matches and result hold the method objects of the registry by reference: a
\* method is written as its position in the registry array.

vars == <<registry, params, pc, matches, result,
          typeMap, args, types, processedTypes, stack, response, server, request>>

----------------------------------------------------------------------------
(* String primitives of the JavaScript runtime used by search.ts           *)

LowerLetters ==
  <<"a","b","c","d","e","f","g","h","i","j","k","l","m",
    "n","o","p","q","r","s","t","u","v","w","x","y","z">>

UpperLetters ==
  <<"A","B","C","D","E","F","G","H","I","J","K","L","M",
    "N","O","P","Q","R","S","T","U","V","W","X","Y","Z">>

Range(s) == {s[i] : i \in DOMAIN s}

UpperSet == Range(UpperLetters)

LetterIndex ==
  [c \in Range(LowerLetters) \cup UpperSet |->
     CHOOSE i \in 1..Len(LowerLetters) : LowerLetters[i] = c \/ UpperLetters[i] = c]

\* [A-Z] of the regular expression at search.ts:137
IsUpper(c) == c \in UpperSet

toLowerCaseChar(c) == IF IsUpper(c) THEN LowerLetters[LetterIndex[c]] ELSE c

\* String.prototype.toLowerCase
toLowerCase(s) == [i \in 1..Len(s) |-> toLowerCaseChar(s[i])]

\* String.prototype.includes: t occurs in s as a contiguous substring
includes(s, t) ==
  \E i \in 0..(Len(s) - Len(t)) : SubSeq(s, i + 1, i + Len(t)) = t

\* \s of the regular expression at search.ts:139 (the only white space that
\* occurs in the strings of the model is the blank)
IsSpace(c) == c = " "

\* name.replace(/([A-Z])/g, ' $1'): a blank goes before every upper-case letter
RECURSIVE replaceUpper(_)
replaceUpper(s) ==
  IF s = <<>> THEN <<>>
  ELSE (IF IsUpper(Head(s)) THEN <<" ", Head(s)>> ELSE <<Head(s)>>)
         \o replaceUpper(Tail(s))

\* String.prototype.split(/\s+/): the pieces between maximal runs of white
\* space; a leading or trailing run leaves an empty piece at that end
RECURSIVE splitFrom(_, _, _)
splitFrom(s, i, cur) ==
  IF i > Len(s) THEN <<cur>>
  ELSE IF IsSpace(s[i])
    THEN IF i < Len(s) /\ IsSpace(s[i + 1])
           THEN splitFrom(s, i + 1, cur)
           ELSE <<cur>> \o splitFrom(s, i + 1, <<>>)
    ELSE splitFrom(s, i + 1, Append(cur, s[i]))

split(s) == splitFrom(s, 1, <<>>)

\* String.prototype.localeCompare on strings of letters: the letters are
\* compared without regard to case first (a shorter string before its
\* extensions); strings equal up to case are ordered lower case first at the
\* first position where they differ
localeCompare(a, b) ==
  LET la == toLowerCase(a)
      lb == toLowerCase(b)
      n  == IF Len(a) < Len(b) THEN Len(a) ELSE Len(b)
      d1 == {i \in 1..n : la[i] # lb[i]}
      d3 == {i \in 1..n : a[i] # b[i]}
      first(S) == CHOOSE i \in S : \A j \in S : i <= j
  IN IF d1 # {}
       THEN IF LetterIndex[la[first(d1)]] < LetterIndex[lb[first(d1)]] THEN -1 ELSE 1
     ELSE IF Len(a) # Len(b)
       THEN IF Len(a) < Len(b) THEN -1 ELSE 1
     ELSE IF d3 # {}
       THEN IF IsUpper(a[first(d3)]) THEN 1 ELSE -1
     ELSE 0

Min(a, b) == IF a < b THEN a ELSE b
Max(a, b) == IF a > b THEN a ELSE b

\* Array.prototype.slice(0, end): a negative end counts from the end of the array
slice(s, end) ==
  LET k == IF end < 0 THEN Max(Len(s) + end, 0) ELSE Min(end, Len(s))
  IN SubSeq(s, 1, k)

----------------------------------------------------------------------------
(* methodIndex.ts: the registry.  Of an AnalysisMethod the model keeps the  *)
(* fields the search reads: name, description, component, severity, scope,  *)
(* category and keywords.                                                   *)

ANALYSIS_METHODS ==
  <<
    [ name        |-> <<"l","i","s","t","N","a","m","e","s","p","a","c","e","s">>,   \* listNamespaces
      description |-> <<"L","i","s","t"," ","a","l","l"," ","n","a","m","e","s","p","a","c","e","s"," ","i","n"," ","t","h","e"," ","c","l","u","s","t","e","r">>,
      component   |-> <<"n","a","m","e","s","p","a","c","e","s">>,   \* namespaces
      severity    |-> "info",
      scope       |-> "cluster",
      category    |-> "configuration",
      keywords    |-> <<
          <<"n","a","m","e","s","p","a","c","e">>,
          <<"p","r","o","j","e","c","t">>,
          <<"l","i","s","t">>,
          <<"i","n","v","e","n","t","o","r","y">> >> ],
    [ name        |-> <<"g","e","t","N","o","d","e","s">>,   \* getNodes
      description |-> <<"G","e","t"," ","a","l","l"," ","n","o","d","e","s"," ","w","i","t","h"," ","s","t","a","t","u","s",","," ","r","o","l","e","s",","," ","a","n","d"," ","c","o","n","d","i","t","i","o","n","s">>,
      component   |-> <<"n","o","d","e","s">>,   \* nodes
      severity    |-> "info",
      scope       |-> "cluster",
      category    |-> "health",
      keywords    |-> <<
          <<"n","o","d","e">>,
          <<"i","n","f","r","a","s","t","r","u","c","t","u","r","e">>,
          <<"c","o","m","p","u","t","e">>,
          <<"r","e","a","d","y">>,
          <<"s","t","a","t","u","s">>,
          <<"w","o","r","k","e","r">>,
          <<"m","a","s","t","e","r">> >> ],
    [ name        |-> <<"g","e","t","P","o","d","s">>,   \* getPods
      description |-> <<"G","e","t"," ","p","o","d","s"," ","f","r","o","m"," ","a"," ","s","p","e","c","i","f","i","c"," ","n","a","m","e","s","p","a","c","e"," ","o","r"," ","a","l","l"," ","n","a","m","e","s","p","a","c","e","s">>,
      component   |-> <<"p","o","d","s">>,   \* pods
      severity    |-> "info",
      scope       |-> "namespace",
      category    |-> "health",
      keywords    |-> <<
          <<"p","o","d">>,
          <<"c","o","n","t","a","i","n","e","r">>,
          <<"n","a","m","e","s","p","a","c","e">>,
          <<"w","o","r","k","l","o","a","d">>,
          <<"a","p","p","l","i","c","a","t","i","o","n">> >> ],
    [ name        |-> <<"g","e","t","F","a","i","l","i","n","g","P","o","d","s">>,   \* getFailingPods
      description |-> <<"G","e","t"," ","p","o","d","s"," ","t","h","a","t"," ","a","r","e"," ","f","a","i","l","i","n","g",","," ","c","r","a","s","h","e","d",","," ","o","r"," ","h","a","v","e"," ","r","e","s","t","a","r","t","i","n","g"," ","c","o","n","t","a","i","n","e","r","s">>,
      component   |-> <<"p","o","d","s">>,   \* pods
      severity    |-> "warning",
      scope       |-> "cluster",
      category    |-> "health",
      keywords    |-> <<
          <<"p","o","d">>,
          <<"f","a","i","l","i","n","g">>,
          <<"c","r","a","s","h","e","d">>,
          <<"e","r","r","o","r">>,
          <<"r","e","s","t","a","r","t">>,
          <<"c","r","a","s","h","l","o","o","p">>,
          <<"f","a","i","l","e","d">> >> ],
    [ name        |-> <<"g","e","t","P","o","d","L","o","g","s">>,   \* getPodLogs
      description |-> <<"G","e","t"," ","l","o","g","s"," ","f","o","r"," ","a"," ","s","p","e","c","i","f","i","c"," ","p","o","d"," ","a","n","d"," ","o","p","t","i","o","n","a","l"," ","c","o","n","t","a","i","n","e","r">>,
      component   |-> <<"p","o","d","s">>,   \* pods
      severity    |-> "info",
      scope       |-> "pod",
      category    |-> "logs",
      keywords    |-> <<
          <<"l","o","g","s">>,
          <<"p","o","d">>,
          <<"c","o","n","t","a","i","n","e","r">>,
          <<"e","r","r","o","r">>,
          <<"d","e","b","u","g">>,
          <<"o","u","t","p","u","t">>,
          <<"s","t","d","o","u","t">>,
          <<"s","t","d","e","r","r">> >> ],
    [ name        |-> <<"g","e","t","E","v","e","n","t","s">>,   \* getEvents
      description |-> <<"G","e","t"," ","c","l","u","s","t","e","r"," ","e","v","e","n","t","s"," ","f","r","o","m"," ","a"," ","n","a","m","e","s","p","a","c","e"," ","o","r"," ","a","l","l"," ","n","a","m","e","s","p","a","c","e","s">>,
      component   |-> <<"e","v","e","n","t","s">>,   \* events
      severity    |-> "info",
      scope       |-> "namespace",
      category    |-> "health",
      keywords    |-> <<
          <<"e","v","e","n","t">>,
          <<"w","a","r","n","i","n","g">>,
          <<"e","r","r","o","r">>,
          <<"h","i","s","t","o","r","y">>,
          <<"t","i","m","e","l","i","n","e">>,
          <<"a","u","d","i","t">> >> ],
    [ name        |-> <<"g","e","t","W","a","r","n","i","n","g","E","v","e","n","t","s">>,   \* getWarningEvents
      description |-> <<"G","e","t"," ","o","n","l","y"," ","w","a","r","n","i","n","g"," ","a","n","d"," ","e","r","r","o","r"," ","e","v","e","n","t","s"," ","f","r","o","m"," ","a","c","r","o","s","s"," ","t","h","e"," ","c","l","u","s","t","e","r">>,
      component   |-> <<"e","v","e","n","t","s">>,   \* events
      severity    |-> "warning",
      scope       |-> "cluster",
      category    |-> "health",
      keywords    |-> <<
          <<"e","v","e","n","t">>,
          <<"w","a","r","n","i","n","g">>,
          <<"e","r","r","o","r">>,
          <<"c","r","i","t","i","c","a","l">>,
          <<"i","s","s","u","e">>,
          <<"p","r","o","b","l","e","m">>,
          <<"a","l","e","r","t">> >> ],
    [ name        |-> <<"g","e","t","E","t","c","d","H","e","a","l","t","h">>,   \* getEtcdHealth
      description |-> <<"G","e","t"," ","e","t","c","d"," ","c","l","u","s","t","e","r"," ","h","e","a","l","t","h"," ","s","t","a","t","u","s"," ","f","o","r"," ","a","l","l"," ","m","e","m","b","e","r","s">>,
      component   |-> <<"e","t","c","d">>,   \* etcd
      severity    |-> "critical",
      scope       |-> "cluster",
      category    |-> "health",
      keywords    |-> <<
          <<"e","t","c","d">>,
          <<"h","e","a","l","t","h">>,
          <<"d","a","t","a","b","a","s","e">>,
          <<"q","u","o","r","u","m">>,
          <<"c","r","i","t","i","c","a","l">>,
          <<"c","o","n","t","r","o","l","-","p","l","a","n","e">> >> ],
    [ name        |-> <<"g","e","t","E","t","c","d","S","t","a","t","u","s">>,   \* getEtcdStatus
      description |-> <<"G","e","t"," ","d","e","t","a","i","l","e","d"," ","e","t","c","d"," ","e","n","d","p","o","i","n","t"," ","s","t","a","t","u","s"," ","a","n","d"," ","m","e","t","a","d","a","t","a">>,
      component   |-> <<"e","t","c","d">>,   \* etcd
      severity    |-> "info",
      scope       |-> "cluster",
      category    |-> "health",
      keywords    |-> <<
          <<"e","t","c","d">>,
          <<"s","t","a","t","u","s">>,
          <<"v","e","r","s","i","o","n">>,
          <<"e","n","d","p","o","i","n","t">>,
          <<"m","e","t","a","d","a","t","a">>,
          <<"c","l","u","s","t","e","r","-","i","d">> >> ],
    [ name        |-> <<"g","e","t","C","l","u","s","t","e","r","O","p","e","r","a","t","o","r","s">>,   \* getClusterOperators
      description |-> <<"G","e","t"," ","a","l","l"," ","c","l","u","s","t","e","r"," ","o","p","e","r","a","t","o","r","s"," ","w","i","t","h"," ","a","v","a","i","l","a","b","i","l","i","t","y"," ","a","n","d"," ","d","e","g","r","a","d","a","t","i","o","n"," ","s","t","a","t","u","s">>,
      component   |-> <<"o","p","e","r","a","t","o","r","s">>,   \* operators
      severity    |-> "info",
      scope       |-> "cluster",
      category    |-> "health",
      keywords    |-> <<
          <<"o","p","e","r","a","t","o","r">>,
          <<"c","l","u","s","t","e","r">>,
          <<"h","e","a","l","t","h">>,
          <<"a","v","a","i","l","a","b","i","l","i","t","y">>,
          <<"c","o","m","p","o","n","e","n","t">>,
          <<"o","p","e","n","s","h","i","f","t">> >> ],
    [ name        |-> <<"g","e","t","D","e","g","r","a","d","e","d","O","p","e","r","a","t","o","r","s">>,   \* getDegradedOperators
      description |-> <<"G","e","t"," ","o","n","l","y"," ","d","e","g","r","a","d","e","d"," ","o","r"," ","u","n","a","v","a","i","l","a","b","l","e"," ","c","l","u","s","t","e","r"," ","o","p","e","r","a","t","o","r","s">>,
      component   |-> <<"o","p","e","r","a","t","o","r","s">>,   \* operators
      severity    |-> "critical",
      scope       |-> "cluster",
      category    |-> "health",
      keywords    |-> <<
          <<"o","p","e","r","a","t","o","r">>,
          <<"d","e","g","r","a","d","e","d">>,
          <<"u","n","a","v","a","i","l","a","b","l","e">>,
          <<"f","a","i","l","i","n","g">>,
          <<"c","r","i","t","i","c","a","l">>,
          <<"b","r","o","k","e","n">> >> ]
  >>

\* A registry of SyntheticSize further descriptors of the AnalysisMethod shape,
\* larger than the result ceiling, in an order that is not the name order;
\* every fourth descriptor has no component
SyntheticSize == 52

SyntheticMethod(i) ==
  LET base ==
        [ name        |-> <<"c","h","k", UpperLetters[((i - 1) % 26) + 1],
                            LowerLetters[((i - 1) \div 26) + 1]>>,
          description |-> <<"C","h","e","c","k"," ", LowerLetters[(i % 5) + 1]>>,
          severity    |-> <<"critical", "warning", "info">>[(i % 3) + 1],
          scope       |-> <<"cluster", "namespace", "pod", "node", "container">>[(i % 5) + 1],
          category    |-> <<"health", "performance", "configuration", "logs">>[(i % 4) + 1],
          keywords    |-> IF i % 2 = 0 THEN << <<"p","o","d">>, <<"E","t","c","d">> >>
                                       ELSE << <<"e">> >> ]
  IN IF i % 4 = 0 THEN base
     ELSE base @@ ("component" :>
            << <<"p","o","d","s">>, <<"E","t","c","d">>, <<"n","o","d","e","s">> >>[(i % 3) + 1])

SYNTHETIC_METHODS == [i \in 1..SyntheticSize |-> SyntheticMethod(i)]

----------------------------------------------------------------------------
(* search.ts                                                               *)

\* JavaScript truthiness of an optional string property: present and not ''
TruthyString(obj, f) == f \in DOMAIN obj /\ obj[f] # <<>>

\* JavaScript truthiness of an optional number property: present and not 0
TruthyNumber(obj, f) == f \in DOMAIN obj /\ obj[f] # 0

Count(s, P(_)) == Cardinality({i \in DOMAIN s : P(s[i])})

\* calculateKeywordScore with the keyword entries matched in one direction only
\* (an entry counts when it contains the keyword, not when the keyword contains it)
calculateKeywordScoreOneWay(method, keyword) ==
  LET kw     == toLowerCase(keyword)
      nameLc == toLowerCase(method.name)
      nameScore ==
        IF nameLc = kw THEN 100
        ELSE IF includes(nameLc, kw) THEN 80 ELSE 0
      keywordMatch(k) == includes(toLowerCase(k), kw)
      keywordMatches == Count(method.keywords, keywordMatch)
      descScore ==
        IF includes(toLowerCase(method.description), kw) THEN 10 ELSE 0
      compScore ==
        IF "component" \in DOMAIN method
             /\ includes(toLowerCase(method.component), kw) THEN 15 ELSE 0
      methodNameWords == split(toLowerCase(replaceUpper(method.name)))
      wordScore ==
        IF \E i \in DOMAIN methodNameWords :
             includes(methodNameWords[i], kw) \/ includes(kw, methodNameWords[i])
        THEN 5 ELSE 0
  IN nameScore + keywordMatches * 20 + descScore + compScore + wordScore

\* search.ts:107-146
calculateKeywordScore(method, keyword) ==
  LET kw     == toLowerCase(keyword)
      nameLc == toLowerCase(method.name)
      nameScore ==
        IF nameLc = kw THEN 100
        ELSE IF includes(nameLc, kw) THEN 80 ELSE 0
      keywordMatch(k) ==
        LET kwLower == toLowerCase(k)
        IN kwLower = kw \/ includes(kwLower, kw) \/ includes(kw, kwLower)
      keywordMatches == Count(method.keywords, keywordMatch)
      descScore ==
        IF includes(toLowerCase(method.description), kw) THEN 10 ELSE 0
      compScore ==
        IF "component" \in DOMAIN method
             /\ includes(toLowerCase(method.component), kw) THEN 15 ELSE 0
      methodNameWords == split(toLowerCase(replaceUpper(method.name)))
      wordScore ==
        IF \E i \in DOMAIN methodNameWords :
             includes(methodNameWords[i], kw) \/ includes(kw, methodNameWords[i])
        THEN 5 ELSE 0
  IN nameScore + keywordMatches * 20 + descScore + compScore + wordScore

\* The structured part of the filter callback, shared by the variants below
structuredScore(method, p, foldCase) ==
  LET fold(s) == IF foldCase THEN toLowerCase(s) ELSE s
      hasC == TruthyString(p, "component")
      okC  == "component" \in DOMAIN method
                /\ fold(method.component) = fold(p.component)
      hasS == "severity" \in DOMAIN p
      okS  == method.severity = p.severity
      hasO == "scope" \in DOMAIN p
      okO  == method.scope = p.scope
      hasG == "category" \in DOMAIN p
      okG  == method.category = p.category
  IN [ component |-> hasC => okC,
       others    |-> (hasS => okS) /\ (hasO => okO) /\ (hasG => okG),
       score     |-> (IF hasC /\ okC THEN 50 ELSE 0)
                   + (IF hasS /\ okS THEN 30 ELSE 0)
                   + (IF hasO /\ okO THEN 30 ELSE 0)
                   + (IF hasG /\ okG THEN 30 ELSE 0) ]

\* the filter callback with the component compared case-sensitively
scoreMethodCaseSensitive(method, p) ==
  LET st   == structuredScore(method, p, FALSE)
      hasK == TruthyString(p, "keyword")
      keywordScore == calculateKeywordScore(method, p.keyword)
  IN [ include |-> st.component /\ st.others /\ (hasK => keywordScore # 0),
       score   |-> st.score + (IF hasK THEN keywordScore ELSE 0) ]

\* the filter callback with a keyword score of 0 not excluding the method
scoreMethodKeywordKept(method, p) ==
  LET st   == structuredScore(method, p, TRUE)
      hasK == TruthyString(p, "keyword")
      keywordScore == calculateKeywordScore(method, p.keyword)
  IN [ include |-> st.component /\ st.others,
       score   |-> st.score + (IF hasK THEN keywordScore ELSE 0) ]

\* the filter callback with a component mismatch not excluding the method
scoreMethodComponentKept(method, p) ==
  LET st   == structuredScore(method, p, TRUE)
      hasK == TruthyString(p, "keyword")
      keywordScore == calculateKeywordScore(method, p.keyword)
  IN [ include |-> st.others /\ (hasK => keywordScore # 0),
       score   |-> st.score + (IF hasK THEN keywordScore ELSE 0) ]

\* search.ts:34-87, the filter callback: whether the method stays, and its score
scoreMethod(method, p) ==
  LET hasC == TruthyString(p, "component")
      okC  == "component" \in DOMAIN method
                /\ toLowerCase(method.component) = toLowerCase(p.component)
      hasS == "severity" \in DOMAIN p
      okS  == method.severity = p.severity
      hasO == "scope" \in DOMAIN p
      okO  == method.scope = p.scope
      hasG == "category" \in DOMAIN p
      okG  == method.category = p.category
      hasK == TruthyString(p, "keyword")
      keywordScore == calculateKeywordScore(method, p.keyword)
  IN [ include |-> /\ (hasC => okC)
                   /\ (hasS => okS)
                   /\ (hasO => okO)
                   /\ (hasG => okG)
                   /\ (hasK => keywordScore # 0),
       score   |-> (IF hasC /\ okC THEN 50 ELSE 0)
                 + (IF hasS /\ okS THEN 30 ELSE 0)
                 + (IF hasO /\ okO THEN 30 ELSE 0)
                 + (IF hasG /\ okG THEN 30 ELSE 0)
                 + (IF hasK THEN keywordScore ELSE 0) ]

\* search.ts:28-87: the methods the filter keeps, in registry order, scored
filterMatches(methods, p) ==
  LET scored == [i \in DOMAIN methods |-> scoreMethod(methods[i], p)]
      kept(i) == scored[i].include
      passed == SelectSeq([i \in DOMAIN methods |-> i], kept)
  IN [k \in DOMAIN passed |->
        [method |-> methods[passed[k]], score |-> scored[passed[k]].score]]

\* the comparator with the scores compared the wrong way round
compareMatchesAscending(a, b) ==
  IF b.score # a.score THEN a.score - b.score
  ELSE localeCompare(a.method.name, b.method.name)

\* the comparator with the names compared the wrong way round
compareMatchesNameDescending(a, b) ==
  IF b.score # a.score THEN b.score - a.score
  ELSE localeCompare(b.method.name, a.method.name)

\* search.ts:90-95, the comparator of the sort
compareMatches(a, b) ==
  IF b.score # a.score THEN b.score - a.score
  ELSE localeCompare(a.method.name, b.method.name)

\* Array.prototype.sort with that comparator (a stable sort)
sortMatches(s) ==
  LET before(i, j) == LET c == compareMatches(s[i], s[j])
                      IN c < 0 \/ (c = 0 /\ i < j)
      place == [i \in DOMAIN s |-> 1 + Cardinality({j \in DOMAIN s : before(j, i)})]
  IN [k \in DOMAIN s |-> s[CHOOSE i \in DOMAIN s : place[i] = k]]

DefaultLimit == 10
MaxLimit == 50

\* the limit without the ceiling
effectiveLimitUncapped(p) ==
  IF TruthyNumber(p, "limit") THEN p.limit ELSE DefaultLimit

\* the limit that falls back to the default when it is above the ceiling
effectiveLimitDefaultAboveCeiling(p) ==
  LET limit == IF TruthyNumber(p, "limit") THEN p.limit ELSE DefaultLimit
  IN IF limit > MaxLimit THEN DefaultLimit ELSE limit

\* search.ts:98-99
effectiveLimit(p) ==
  LET limit == IF TruthyNumber(p, "limit") THEN p.limit ELSE DefaultLimit
  IN Min(limit, MaxLimit)

\* search.ts:101
takeMethods(ranked, p) ==
  LET sliced == slice(ranked, effectiveLimit(p))
  IN [i \in 1..Len(sliced) |-> sliced[i].method]

\* search.ts:28-95: the local `matches` after the filter and the sort
rankMatches(methods, p) == sortMatches(filterMatches(methods, p))

\* search.ts:27-102: the value searchAnalysisMethods returns
searchResult(methods, p) == takeMethods(rankMatches(methods, p), p)

----------------------------------------------------------------------------
(* typeGenerator.ts: the type definitions and the references between them. *)
(* Of a TypeDefinition the model keeps the name and whether it carries an   *)
(* examples value; definition and source are display text.                 *)

tNode               == <<"N","o","d","e">>
tPod                == <<"P","o","d">>
tContainer          == <<"C","o","n","t","a","i","n","e","r">>
tEvent              == <<"E","v","e","n","t">>
tEtcdHealth         == <<"E","t","c","d","H","e","a","l","t","h">>
tClusterOperator    == <<"C","l","u","s","t","e","r","O","p","e","r","a","t","o","r">>
tCondition          == <<"C","o","n","d","i","t","i","o","n">>
tMustGatherConfig   == <<"M","u","s","t","G","a","t","h","e","r","C","o","n","f","i","g">>
tMustGatherAnalyzer == <<"M","u","s","t","G","a","t","h","e","r","A","n","a","l","y","z","e","r">>

\* typeGenerator.ts:80-286, 291-305, 310-322.  cases: the names the switch of
\* getTypeDefinition knows, each with whether its case has an examples value;
\* nested: nestedTypeMap; all: the list getAllTypeNames returns
TYPE_GENERATOR ==
  [ cases  |-> (tNode :> TRUE) @@ (tPod :> TRUE) @@ (tContainer :> TRUE)
                 @@ (tEvent :> TRUE) @@ (tEtcdHealth :> TRUE)
                 @@ (tClusterOperator :> TRUE) @@ (tCondition :> FALSE)
                 @@ (tMustGatherConfig :> FALSE) @@ (tMustGatherAnalyzer :> TRUE),
    nested |-> (tNode :> <<tCondition>>)
                 @@ (tPod :> <<tContainer, tCondition>>)
                 @@ (tContainer :> <<>>)
                 @@ (tEvent :> <<>>)
                 @@ (tEtcdHealth :> <<>>)
                 @@ (tClusterOperator :> <<tCondition>>)
                 @@ (tCondition :> <<>>)
                 @@ (tMustGatherConfig :> <<>>)
                 @@ (tMustGatherAnalyzer :>
                       <<tMustGatherConfig, tNode, tPod, tEvent, tEtcdHealth,
                         tClusterOperator>>),
    all    |-> <<tMustGatherAnalyzer, tMustGatherConfig, tNode, tPod, tContainer,
                 tEvent, tEtcdHealth, tClusterOperator, tCondition>> ]

\* Further type maps of the same shape: two types that reference each other,
\* a chain of references, and a map in which a type is referenced both directly
\* and through another type, with a reference to a name that has no definition
tA == <<"A">>
tB == <<"B">>
tC == <<"C">>
tD == <<"D">>
tE == <<"E">>
tUndefined == <<"U","n","d","e","f">>

CYCLE_TYPES ==
  [ cases  |-> (tA :> TRUE) @@ (tB :> FALSE),
    nested |-> (tA :> <<tB>>) @@ (tB :> <<tA>>),
    all    |-> <<tA, tB>> ]

CHAIN_TYPES ==
  [ cases  |-> (tA :> TRUE) @@ (tB :> TRUE) @@ (tC :> FALSE) @@ (tD :> TRUE) @@ (tE :> TRUE),
    nested |-> (tA :> <<tB>>) @@ (tB :> <<tC>>) @@ (tC :> <<tD>>) @@ (tD :> <<tE>>)
                 @@ (tE :> <<>>),
    all    |-> <<tA, tB, tC, tD, tE>> ]

SHARED_TYPES ==
  [ cases  |-> (tA :> TRUE) @@ (tB :> TRUE) @@ (tC :> TRUE) @@ (tD :> FALSE),
    nested |-> (tA :> <<tB, tC>>) @@ (tB :> <<tC, tUndefined>>) @@ (tC :> <<tD>>),
    all    |-> <<tA, tB, tC, tD>> ]

\* a map in which a type with a reference of its own (C) is referred to by A
\* directly and also at the end of the longer way A, B, E
DETOUR_TYPES ==
  [ cases  |-> (tA :> TRUE) @@ (tB :> TRUE) @@ (tC :> TRUE) @@ (tD :> FALSE) @@ (tE :> TRUE),
    nested |-> (tA :> <<tB, tC>>) @@ (tB :> <<tE>>) @@ (tE :> <<tC>>) @@ (tC :> <<tD>>)
                 @@ (tD :> <<>>),
    all    |-> <<tA, tB, tC, tD, tE>> ]

TypeMap ==
  CASE typeMap = "typeGenerator" -> TYPE_GENERATOR
    [] typeMap = "cycle"         -> CYCLE_TYPES
    [] typeMap = "chain"         -> CHAIN_TYPES
    [] typeMap = "shared"        -> SHARED_TYPES
    [] typeMap = "detour"        -> DETOUR_TYPES

\* String.prototype.split('.'): the pieces between the dots
RECURSIVE splitDotFrom(_, _, _)
splitDotFrom(s, i, cur) ==
  IF i > Len(s) THEN <<cur>>
  ELSE IF s[i] = "." THEN <<cur>> \o splitDotFrom(s, i + 1, <<>>)
  ELSE splitDotFrom(s, i + 1, Append(cur, s[i]))

splitDot(s) == splitDotFrom(s, 1, <<>>)

\* the value null, of the kind of a TypeDefinition so that the two compare
null == [null |-> TRUE]

\* getTypeDefinition whose default case answers with a definition of that name
getTypeDefinitionAnyName(typeName, includeExamples) ==
  IF typeName \in DOMAIN TypeMap.cases
    THEN [name |-> typeName, examples |-> includeExamples /\ TypeMap.cases[typeName]]
    ELSE [name |-> typeName, examples |-> FALSE]

\* getTypeDefinition with the examples of a case given whatever is asked
getTypeDefinitionWithExamples(typeName, includeExamples) ==
  IF typeName \in DOMAIN TypeMap.cases
    THEN [name |-> typeName, examples |-> TypeMap.cases[typeName]]
    ELSE null

\* typeGenerator.ts:80-286
getTypeDefinition(typeName, includeExamples) ==
  IF typeName \in DOMAIN TypeMap.cases
    THEN [name |-> typeName, examples |-> includeExamples /\ TypeMap.cases[typeName]]
    ELSE null

\* typeGenerator.ts:291-305
getNestedTypes(baseType) ==
  IF baseType \in DOMAIN TypeMap.nested THEN TypeMap.nested[baseType] ELSE <<>>

\* typeGenerator.ts:310-322
getAllTypeNames == TypeMap.all

\* the body of addTypeDefinition with the duplicate check left out
enterTypeUnchecked(typeName, ts, processed, maxDepth, includeExamples, currentDepth) ==
  LET baseType == Head(splitDot(typeName))
      typeDef  == getTypeDefinition(baseType, includeExamples)
  IN [ types     |-> IF typeDef # null THEN Append(ts, typeDef) ELSE ts,
       processed |-> processed \cup {baseType},
       nested    |-> IF typeDef # null /\ currentDepth < maxDepth
                       THEN getNestedTypes(baseType) ELSE <<>> ]

\* the body of addTypeDefinition with the depth test off by one
enterTypeOneDeeper(typeName, ts, processed, maxDepth, includeExamples, currentDepth) ==
  LET baseType == Head(splitDot(typeName))
      typeDef  == getTypeDefinition(baseType, includeExamples)
  IN IF baseType \in processed
       THEN [types |-> ts, processed |-> processed, nested |-> <<>>]
       ELSE [ types     |-> IF typeDef # null THEN Append(ts, typeDef) ELSE ts,
              processed |-> processed \cup {baseType},
              nested    |-> IF typeDef # null /\ currentDepth <= maxDepth
                              THEN getNestedTypes(baseType) ELSE <<>> ]

\* the body of addTypeDefinition with the whole name looked up, dots included
enterTypeWholeName(typeName, ts, processed, maxDepth, includeExamples, currentDepth) ==
  LET baseType == typeName
      typeDef  == getTypeDefinition(baseType, includeExamples)
  IN IF baseType \in processed
       THEN [types |-> ts, processed |-> processed, nested |-> <<>>]
       ELSE [ types     |-> IF typeDef # null THEN Append(ts, typeDef) ELSE ts,
              processed |-> processed \cup {baseType},
              nested    |-> IF typeDef # null /\ currentDepth < maxDepth
                              THEN getNestedTypes(baseType) ELSE <<>> ]

\* the body of addTypeDefinition with the definition put at the front of `types`
enterTypeAtFront(typeName, ts, processed, maxDepth, includeExamples, currentDepth) ==
  LET baseType == Head(splitDot(typeName))
      typeDef  == getTypeDefinition(baseType, includeExamples)
  IN IF baseType \in processed
       THEN [types |-> ts, processed |-> processed, nested |-> <<>>]
       ELSE [ types     |-> IF typeDef # null THEN <<typeDef>> \o ts ELSE ts,
              processed |-> processed \cup {baseType},
              nested    |-> IF typeDef # null /\ currentDepth < maxDepth
                              THEN getNestedTypes(baseType) ELSE <<>> ]

\* typeGenerator.ts:45-60, the body of addTypeDefinition up to its loop: the
\* new `types` and `processedTypes`, and the nested names the loop will visit
enterType(typeName, ts, processed, maxDepth, includeExamples, currentDepth) ==
  LET baseType == Head(splitDot(typeName))
      typeDef  == getTypeDefinition(baseType, includeExamples)
  IN IF baseType \in processed
       THEN [types |-> ts, processed |-> processed, nested |-> <<>>]
       ELSE [ types     |-> IF typeDef # null THEN Append(ts, typeDef) ELSE ts,
              processed |-> processed \cup {baseType},
              nested    |-> IF typeDef # null /\ currentDepth < maxDepth
                              THEN getNestedTypes(baseType) ELSE <<>> ]

\* typeGenerator.ts:36-75 and its loop 61-72, as functions of the two
\* collections: st is [types, processed]
RECURSIVE addTypeDefinition(_, _, _, _, _)
RECURSIVE addNestedTypes(_, _, _, _, _)
addTypeDefinition(typeName, st, maxDepth, includeExamples, currentDepth) ==
  LET e == enterType(typeName, st.types, st.processed, maxDepth, includeExamples,
                     currentDepth)
  IN addNestedTypes(e.nested, [types |-> e.types, processed |-> e.processed],
                    maxDepth, includeExamples, currentDepth + 1)

addNestedTypes(nestedTypes, st, maxDepth, includeExamples, depth) ==
  IF nestedTypes = <<>> THEN st
  ELSE addNestedTypes(
         Tail(nestedTypes),
         IF Head(nestedTypes) \notin st.processed
           THEN addTypeDefinition(Head(nestedTypes), st, maxDepth, includeExamples, depth)
           ELSE st,
         maxDepth, includeExamples, depth)

\* typeGenerator.ts:26-28, the loop over the requested names
RECURSIVE addRequested(_, _, _, _)
addRequested(typeNames, st, depth, includeExamples) ==
  IF typeNames = <<>> THEN st
  ELSE addRequested(Tail(typeNames),
                    addTypeDefinition(Head(typeNames), st, depth, includeExamples, 0),
                    depth, includeExamples)

\* typeGenerator.ts:18-31: the value getTypeDefinitions returns
getTypeDefinitions(typeNames, depth, includeExamples) ==
  addRequested(typeNames, [types |-> <<>>, processed |-> {}], depth, includeExamples).types

----------------------------------------------------------------------------
(* mcp-server.ts: the getTypeDefinition tool call                          *)

\* the separator of join(', ')
commaBlank == <<",", " ">>

\* Array.prototype.join(', ')
RECURSIVE join(_)
join(names) ==
  IF names = <<>> THEN <<>>
  ELSE IF Len(names) = 1 THEN names[1]
  ELSE names[1] \o commaBlank \o join(Tail(names))

textRequired ==
  <<"t","y","p","e","N","a","m","e","s"," ","a","r","r","a","y"," ","i","s"," ",
    "r","e","q","u","i","r","e","d",".">>

textNoTypes == <<"N","o"," ","t","y","p","e","s"," ","f","o","u","n","d",".">>

textAvailable ==
  <<" ","A","v","a","i","l","a","b","l","e"," ","t","y","p","e","s",":"," ">>

textError == <<"E","r","r","o","r",":"," ">>

\* the response of a call that threw, without 'Error: ' in front of the message
errorResponseBare(message) ==
  [pending |-> FALSE, thrown |-> FALSE, isError |-> TRUE, text |-> message,
   types |-> <<>>, totalMethods |-> 0, methods |-> <<>>]

\* mcp-server.ts:211-221, the catch clause: the response of a call that threw
errorResponse(message) ==
  [pending |-> FALSE, thrown |-> FALSE, isError |-> TRUE, text |-> textError \o message,
   types |-> <<>>, totalMethods |-> 0, methods |-> <<>>]

\* mcp-server.ts:198-203: the response of a call that built a result
resultResponse(ts) ==
  [pending |-> FALSE, thrown |-> FALSE, isError |-> FALSE, text |-> <<>>,
   types |-> ts, totalMethods |-> 0, methods |-> <<>>]

\* no response yet
noResponse ==
  [pending |-> TRUE, thrown |-> FALSE, isError |-> FALSE, text |-> <<>>,
   types |-> <<>>, totalMethods |-> 0, methods |-> <<>>]

\* an array value of args.typeNames, and a value that is not an array (a
\* string, say)
ArrayOf(items) == [isArray |-> TRUE, items |-> items]

notAnArray == [isArray |-> FALSE, items |-> <<>>]

\* mcp-server.ts:176, args?.typeNames && Array.isArray(args.typeNames): every
\* array is truthy, the empty one too
hasTypeNamesArray(a) == "typeNames" \in DOMAIN a /\ a.typeNames.isArray

\* (args.depth as number) || 1, mcp-server.ts:182
depthArgument(a) == IF TruthyNumber(a, "depth") THEN a.depth ELSE 1

\* (args.includeExamples as boolean) || false, mcp-server.ts:183
examplesArgument(a) == "includeExamples" \in DOMAIN a /\ a.includeExamples

\* the end of the tool call when an empty list of definitions is no error
typesResponseNeverEmpty(ts) == resultResponse(ts)

\* mcp-server.ts:186-203: the end of the tool call
typesResponse(ts) ==
  IF Len(ts) = 0
    THEN errorResponse(textNoTypes \o textAvailable \o join(getAllTypeNames))
    ELSE resultResponse(ts)

\* mcp-server.ts:135, 175 and 434, 475: the tool names of the two versions of
\* the server
mustGather == <<"m","u","s","t","G","a","t","h","e","r">>

searchAnalysisName(v) ==
  mustGather \o (IF v = "dotted" THEN <<".">> ELSE <<"_">>)
    \o <<"s","e","a","r","c","h","A","n","a","l","y","s","i","s">>

getTypeDefinitionName(v) ==
  mustGather \o (IF v = "dotted" THEN <<".">> ELSE <<"_">>)
    \o <<"g","e","t","T","y","p","e","D","e","f","i","n","i","t","i","o","n">>

\* a CallToolRequest for the tool of that name
ToolCall(n) == [kind |-> "tool", name |-> n, uri |-> ""]

\* a ReadResourceRequest for that uri
ResourceRead(u) == [kind |-> "resource", name |-> <<>>, uri |-> u]

\* the state of the type tool while a search call is modelled
TypeIdle ==
  /\ typeMap = "typeGenerator"
  /\ args = [z \in {} |-> z]
  /\ types = <<>>
  /\ processedTypes = {}
  /\ stack = <<>>
  /\ response = noResponse
  /\ server = "dotted"
  /\ request = ToolCall(searchAnalysisName(server))

----------------------------------------------------------------------------
(* The calls the model makes: one call of searchAnalysisMethods per         *)
(* behaviour, its SearchParams and the registry drawn in Init               *)

Registries == {"ANALYSIS_METHODS", "SYNTHETIC_METHODS"}

\* the array the search reads
Registry ==
  IF registry = "ANALYSIS_METHODS" THEN ANALYSIS_METHODS ELSE SYNTHETIC_METHODS

\* the reference to a method object of the registry
Ref(m) == CHOOSE i \in DOMAIN Registry : Registry[i] = m

Refs(ms) == [i \in DOMAIN ms |-> Ref(ms[i])]

ScoredRefs(ranked) ==
  [i \in DOMAIN ranked |-> [method |-> Ref(ranked[i].method), score |-> ranked[i].score]]

\* an optional property: <<>> when it is absent, <<v>> when it is v
Opt(vals) == {<<>>} \cup {<<v>> : v \in vals}

\* the SearchParams object with the given optional properties
Obj(c, s, o, g, k, l) ==
  LET opt(f, x) == IF x = <<>> THEN [z \in {} |-> z] ELSE (f :> x[1])
  IN opt("component", c) @@ opt("severity", s) @@ opt("scope", o)
       @@ opt("category", g) @@ opt("keyword", k) @@ opt("limit", l)

QueriesOver(C, S, O, G, K, L) ==
  { Obj(c, s, o, g, k, l) : c \in C, s \in S, o \in O, g \in G, k \in K, l \in L }

kwFailing  == <<"f","a","i","l","i","n","g">>
kwDegraded == <<"d","e","g","r","a","d","e","d">>
kwPod      == <<"P","o","d">>
kwGetPods  == <<"g","e","t","p","o","d","s">>
kwChk      == <<"c","h","k">>
kwNone     == <<"z","z","z">>

Components == { <<>>, <<"p","o","d","s">>, <<"E","T","C","D">>, <<"n","o","n","e">> }
Keywords   == { <<>>, kwFailing, kwDegraded, kwPod, kwGetPods, <<"e">>, kwChk, kwNone }
Limits     == {-5, 0, 1, 10, 50, 51, 1000}

\* every combination of the structured filters, with and without a keyword
StructuredQueries ==
  QueriesOver(Opt(Components), Opt({"critical", "warning"}), Opt({"cluster", "pod"}),
              Opt({"health"}), Opt({kwPod}), {<<>>})

\* every keyword, alone and beside a structured filter and a limit
KeywordQueries ==
  QueriesOver(Opt({<<"p","o","d","s">>}), Opt({"critical"}), {<<>>}, {<<>>},
              Opt(Keywords), Opt({3}))

\* every limit, alone and beside a keyword and a structured filter
LimitQueries ==
  QueriesOver({<<>>}, Opt({"warning"}), {<<>>}, {<<>>},
              Opt({kwChk, <<"e">>}), Opt(Limits))

Queries == StructuredQueries \cup KeywordQueries \cup LimitQueries

Init ==
  /\ registry \in Registries
  /\ params \in Queries
  /\ pc = "call"
  /\ matches = <<>>
  /\ result = <<>>
  /\ TypeIdle

\* search.ts:27-102
searchAnalysisMethods ==
  /\ pc = "call"
  /\ matches' = ScoredRefs(rankMatches(Registry, params))
  /\ result' = Refs(searchResult(Registry, params))
  /\ pc' = "done"
  /\ UNCHANGED <<registry, params>>
  /\ UNCHANGED <<typeMap, args, types, processedTypes, stack, response, server, request>>

Next == searchAnalysisMethods

Spec == Init /\ [][Next]_vars

----------------------------------------------------------------------------
(* The getTypeDefinition tool call, one step of the expander at a time     *)

typeMaps == {"typeGenerator", "cycle", "chain", "shared", "detour"}

tPodStatus  == tPod \o <<".","s","t","a","t","u","s">>
tNoSuchType == <<"N","o","S","u","c","h","T","y","p","e">>
tADotB      == <<"A",".","B">>

\* the names a call may request of each type map: defined names, dotted
\* variants and names without a definition
RequestNames(m) ==
  CASE m = "typeGenerator" -> {tMustGatherAnalyzer, tPod, tPodStatus, tCondition, tNoSuchType}
    [] m = "cycle"         -> {tA, tB, tADotB, tNoSuchType}
    [] m = "chain"         -> {tA, tB, tADotB, tNoSuchType}
    [] m = "shared"        -> {tA, tB, tADotB, tUndefined}
    [] m = "detour"        -> {tA, tC, tADotB, tNoSuchType}

MaxRequested == 2

SeqsUpTo(S, n) == UNION {[1..k -> S] : k \in 0..n}

Depths == {-1, 0, 1, 2, 3, 4}

TypeArgs(m) ==
  { tn @@ d @@ e :
      tn \in {[z \in {} |-> z], "typeNames" :> notAnArray}
               \cup {"typeNames" :> ArrayOf(l) : l \in SeqsUpTo(RequestNames(m), MaxRequested)},
      d  \in {[z \in {} |-> z]} \cup {"depth" :> x : x \in Depths},
      e  \in {[z \in {} |-> z], "includeExamples" :> TRUE, "includeExamples" :> FALSE} }

\* the state of the search while a type call is modelled
SearchIdle ==
  /\ registry = "ANALYSIS_METHODS"
  /\ params = [z \in {} |-> z]
  /\ matches = <<>>
  /\ result = <<>>

InitExpand ==
  /\ SearchIdle
  /\ typeMap \in typeMaps
  /\ args \in TypeArgs(typeMap)
  /\ pc = "call"
  /\ types = <<>>
  /\ processedTypes = {}
  /\ stack = <<>>
  /\ response = noResponse
  /\ server = "dotted"
  /\ request = ToolCall(getTypeDefinitionName(server))

\* a loop over names in progress: the names still to come, and the
\* currentDepth its calls of addTypeDefinition are given
Frame(names, depth) == [names |-> names, depth |-> depth]

\* the entry of a getTypeDefinitions whose set of processed names is one for
\* all calls
callGetTypeDefinitionSharedSet ==
  /\ pc = "call"
  /\ request = ToolCall(getTypeDefinitionName(server))
  /\ IF ~hasTypeNamesArray(args)
       THEN /\ response' = errorResponse(textRequired \o textAvailable \o join(getAllTypeNames))
            /\ pc' = "done"
            /\ UNCHANGED <<types, processedTypes, stack>>
       ELSE /\ types' = <<>>
            /\ processedTypes' = processedTypes
            /\ stack' = <<Frame(args.typeNames.items, 0)>>
            /\ pc' = "expand"
            /\ UNCHANGED response
  /\ UNCHANGED <<registry, params, matches, result, typeMap, args, server, request>>

\* mcp-server.ts:175-185 and typeGenerator.ts:18-24: the validation of the
\* arguments, then the entry of getTypeDefinitions
callGetTypeDefinition ==
  /\ pc = "call"
  /\ request = ToolCall(getTypeDefinitionName(server))
  /\ IF ~hasTypeNamesArray(args)
       THEN /\ response' = errorResponse(textRequired \o textAvailable \o join(getAllTypeNames))
            /\ pc' = "done"
            /\ UNCHANGED <<types, processedTypes, stack>>
       ELSE /\ types' = <<>>
            /\ processedTypes' = {}
            /\ stack' = <<Frame(args.typeNames.items, 0)>>
            /\ pc' = "expand"
            /\ UNCHANGED response
  /\ UNCHANGED <<registry, params, matches, result, typeMap, args, server, request>>

\* typeGenerator.ts:26-28 and 61-72, one turn of a loop: the next name of the
\* innermost loop is given to addTypeDefinition (a nested name only if it is
\* not processed, line 62), which runs up to its own loop (lines 45-60)
addTypeDefinitionStep ==
  /\ pc = "expand"
  /\ stack # <<>>
  /\ LET top      == stack[Len(stack)]
         below    == SubSeq(stack, 1, Len(stack) - 1)
     IN /\ top.names # <<>>
        /\ LET typeName == Head(top.names)
               rest     == Frame(Tail(top.names), top.depth)
               e        == enterType(typeName, types, processedTypes,
                                     depthArgument(args), examplesArgument(args),
                                     top.depth)
           IN IF top.depth > 0 /\ typeName \in processedTypes
                THEN /\ stack' = Append(below, rest)
                     /\ UNCHANGED <<types, processedTypes>>
                ELSE /\ types' = e.types
                     /\ processedTypes' = e.processed
                     /\ stack' = IF e.nested = <<>>
                                   THEN Append(below, rest)
                                   ELSE Append(below, rest) \o <<Frame(e.nested, top.depth + 1)>>
  /\ UNCHANGED <<registry, params, matches, result, typeMap, args, pc, response,
                 server, request>>

\* a return that only calls two or more levels deep ever make
returnFromAddTypeDefinitionDeepOnly ==
  /\ pc = "expand"
  /\ Len(stack) > 2
  /\ stack[Len(stack)].names = <<>>
  /\ stack' = SubSeq(stack, 1, Len(stack) - 1)
  /\ UNCHANGED <<registry, params, matches, result, typeMap, args, pc, types,
                 processedTypes, response, server, request>>

\* typeGenerator.ts:61-74: the loop over the nested names is over and the call
\* of addTypeDefinition returns to the loop that made it
returnFromAddTypeDefinition ==
  /\ pc = "expand"
  /\ Len(stack) > 1
  /\ stack[Len(stack)].names = <<>>
  /\ stack' = SubSeq(stack, 1, Len(stack) - 1)
  /\ UNCHANGED <<registry, params, matches, result, typeMap, args, pc, types,
                 processedTypes, response, server, request>>

\* typeGenerator.ts:30 and mcp-server.ts:186-214: getTypeDefinitions returns
\* and the call answers
finishGetTypeDefinition ==
  /\ pc = "expand"
  /\ Len(stack) = 1
  /\ stack[1].names = <<>>
  /\ response' = typesResponse(types)
  /\ stack' = <<>>
  /\ pc' = "done"
  /\ UNCHANGED <<registry, params, matches, result, typeMap, args, types,
                 processedTypes, server, request>>

ExpandNext ==
  \/ callGetTypeDefinition
  \/ addTypeDefinitionStep
  \/ returnFromAddTypeDefinition
  \/ finishGetTypeDefinition

ExpandSpec == InitExpand /\ [][ExpandNext]_vars

\* every step of the call is the server's own: a call that can go on does
FairExpandSpec == ExpandSpec /\ WF_vars(ExpandNext)

----------------------------------------------------------------------------
(* mcp-server.ts: the server, one request after another.  The handlers are *)
(* async functions without an await, so each runs to its end before the    *)
(* next request is taken up.  What a finished call left in its local       *)
(* variables stays in the state until a later call of the same function    *)
(* creates them anew.                                                      *)

textUnknownTool == <<"U","n","k","n","o","w","n"," ","t","o","o","l",":"," ">>

textUnknownResource ==
  <<"U","n","k","n","o","w","n"," ","r","e","s","o","u","r","c","e",":"," ">>

textLibNotFound ==
  <<"m","u","s","t","-","g","a","t","h","e","r","-","l","i","b",".","t","s"," ",
    "n","o","t"," ","f","o","u","n","d">>

\* the text of the file must-gather-lib.ts, whatever it is
textLib == <<"l","i","b">>

uriLib   == "file:///must-gather-lib.ts"
uriTypes == "file:///must-gather-types.d.ts"
uriOther == "file:///other.ts"

\* a tool name of neither version
bogusName == <<"b","o","g","u","s">>

\* mcp-server.ts:147-173 and 201-210: the result of a search and its response
searchResponse(methods) ==
  [pending |-> FALSE, thrown |-> FALSE, isError |-> FALSE, text |-> <<>>,
   types |-> <<>>, totalMethods |-> Len(methods), methods |-> methods]

\* mcp-server.ts:249-253, 281: an error thrown by the resource handler, which
\* has no try block: the request ends in an exception
thrownResponse(message) ==
  [pending |-> FALSE, thrown |-> TRUE, isError |-> FALSE, text |-> message,
   types |-> <<>>, totalMethods |-> 0, methods |-> <<>>]

\* mcp-server.ts:254-263: the text of the library file
fileResponse(text) ==
  [pending |-> FALSE, thrown |-> FALSE, isError |-> FALSE, text |-> text,
   types |-> <<>>, totalMethods |-> 0, methods |-> <<>>]

\* mcp-server.ts:268, the depth of the type resource
ResourceDepth == 2

\* mcp-server.ts:135-173, 201-210: the searchAnalysis case.  The handler copies
\* the six fields of the arguments into the SearchParams one by one; `params`
\* is both
callSearchAnalysis ==
  /\ pc = "call"
  /\ request = ToolCall(searchAnalysisName(server))
  /\ matches' = ScoredRefs(rankMatches(Registry, params))
  /\ result' = Refs(searchResult(Registry, params))
  /\ response' = searchResponse(result')
  /\ pc' = "done"
  /\ UNCHANGED <<registry, params, typeMap, args, types, processedTypes, stack,
                 server, request>>

\* mcp-server.ts:199-200, 211-221: the default case
callUnknownTool ==
  /\ pc = "call"
  /\ request.kind = "tool"
  /\ request.name \notin {searchAnalysisName(server), getTypeDefinitionName(server)}
  /\ response' = errorResponse(textUnknownTool \o request.name)
  /\ pc' = "done"
  /\ UNCHANGED <<registry, params, matches, result, typeMap, args, types,
                 processedTypes, stack, server, request>>

\* mcp-server.ts:246-282: the ReadResourceRequestSchema handler.  Of the text
\* of the type resource the model keeps the list of definitions it joins
ReadResource ==
  /\ pc = "call"
  /\ request.kind = "resource"
  /\ \/ /\ request.uri = uriLib
        /\ \E existsSync \in BOOLEAN :
             response' = IF existsSync THEN fileResponse(textLib)
                         ELSE thrownResponse(textLibNotFound)
     \/ /\ request.uri = uriTypes
        /\ response' = resultResponse(getTypeDefinitions(getAllTypeNames, ResourceDepth, FALSE))
     \/ /\ request.uri \notin {uriLib, uriTypes}
        /\ response' = thrownResponse(textUnknownResource)
  /\ pc' = "done"
  /\ UNCHANGED <<registry, params, matches, result, typeMap, args, types,
                 processedTypes, stack, server, request>>

\* the type maps, the search arguments and the type arguments of the requests
ServerTypeMaps == {"typeGenerator", "cycle"}

ServerQueries == {[z \in {} |-> z], [keyword |-> kwDegraded], [keyword |-> kwNone]}

ServerTypeArgs(m) ==
  { tn @@ d :
      tn \in {[z \in {} |-> z], "typeNames" :> ArrayOf(<<>>)}
               \cup {"typeNames" :> ArrayOf(<<n>>) : n \in RequestNames(m)},
      d  \in {[z \in {} |-> z], "depth" :> 2} }

\* the requests a client may send to the server v over the type map m
Requests(v, m) ==
  LET none  == [z \in {} |-> z]
      other == IF v = "dotted" THEN "underscore" ELSE "dotted"
  IN    { [request |-> ToolCall(searchAnalysisName(v)), params |-> q, args |-> none] :
            q \in ServerQueries }
   \cup { [request |-> ToolCall(getTypeDefinitionName(v)), params |-> none, args |-> a] :
            a \in ServerTypeArgs(m) }
   \cup { [request |-> ToolCall(n), params |-> none, args |-> none] :
            n \in {searchAnalysisName(other), getTypeDefinitionName(other), bogusName} }
   \cup { [request |-> ResourceRead(u), params |-> none, args |-> none] :
            u \in {uriLib, uriTypes, uriOther} }

InitServer ==
  /\ registry = "ANALYSIS_METHODS"
  /\ typeMap \in ServerTypeMaps
  /\ server \in {"dotted", "underscore"}
  /\ \E r \in Requests(server, typeMap) :
       /\ request = r.request
       /\ params = r.params
       /\ args = r.args
  /\ pc = "call"
  /\ matches = <<>>
  /\ result = <<>>
  /\ types = <<>>
  /\ processedTypes = {}
  /\ stack = <<>>
  /\ response = noResponse

\* mcp-server.ts:128-129, 246-247: the next request arrives
nextRequest ==
  /\ pc = "done"
  /\ \E r \in Requests(server, typeMap) :
       /\ request' = r.request
       /\ params' = r.params
       /\ args' = r.args
  /\ response' = noResponse
  /\ pc' = "call"
  /\ UNCHANGED <<registry, matches, result, typeMap, types, processedTypes, stack, server>>

ServerNext ==
  \/ callSearchAnalysis
  \/ callGetTypeDefinition
  \/ addTypeDefinitionStep
  \/ returnFromAddTypeDefinition
  \/ finishGetTypeDefinition
  \/ callUnknownTool
  \/ ReadResource
  \/ nextRequest

ServerSpec == InitServer /\ [][ServerNext]_vars

----------------------------------------------------------------------------
(* The statements of the specification, written from its words and not     *)
(* from the operators above                                                 *)

Done == pc = "done"

Has(f) == f \in DOMAIN params

\* the methods that survived the filter
Candidates == {Registry[matches[i].method] : i \in DOMAIN matches}

Returned == {Registry[result[i]] : i \in DOMAIN result}

Methods == {Registry[i] : i \in DOMAIN Registry}

\* the names of the returned methods, in order
ResultNames == [i \in DOMAIN result |-> Registry[result[i]].name]

\* the same character up to case
SameChar(c, d) ==
  \/ c = d
  \/ /\ c \in DOMAIN LetterIndex
     /\ d \in DOMAIN LetterIndex
     /\ LetterIndex[c] = LetterIndex[d]

\* a and b are equal up to case
SameText(a, b) ==
  Len(a) = Len(b) /\ \A i \in 1..Len(a) : SameChar(a[i], b[i])

\* t occurs in s up to case
Within(t, s) ==
  \E k \in 1..(Len(s) + 1) :
    \A i \in 1..Len(t) : k + i - 1 <= Len(s) /\ SameChar(s[k + i - 1], t[i])

\* the words of a camel-case name: the maximal stretches that begin at the
\* first character or at an upper-case letter and hold no other upper-case letter
WordsOf(name) ==
  { SubSeq(name, a, b) : <<a, b>> \in
      { ab \in (1..Len(name)) \X (1..Len(name)) :
          /\ ab[1] <= ab[2]
          /\ (ab[1] = 1 \/ IsUpper(name[ab[1]]))
          /\ \A i \in (ab[1] + 1)..ab[2] : ~IsUpper(name[i])
          /\ (ab[2] = Len(name) \/ IsUpper(name[ab[2] + 1])) } }

\* section 4.1, step 2: the keyword score of a descriptor
KeywordScoreOf(d, kw) ==
    (IF SameText(d.name, kw) THEN 100 ELSE IF Within(kw, d.name) THEN 80 ELSE 0)
  + 20 * Cardinality({i \in DOMAIN d.keywords :
                        \/ SameText(d.keywords[i], kw)
                        \/ Within(kw, d.keywords[i])
                        \/ Within(d.keywords[i], kw)})
  + (IF Within(kw, d.description) THEN 10 ELSE 0)
  + (IF "component" \in DOMAIN d /\ Within(kw, d.component) THEN 15 ELSE 0)
  + (IF \E w \in WordsOf(d.name) : Within(kw, w) \/ Within(w, kw) THEN 5 ELSE 0)

\* section 4.1, step 2: the bonus of the structured filters of the query
FilterBonus ==
    (IF Has("component") /\ params.component # <<>> THEN 50 ELSE 0)
  + (IF Has("severity") THEN 30 ELSE 0)
  + (IF Has("scope") THEN 30 ELSE 0)
  + (IF Has("category") THEN 30 ELSE 0)

\* d equals the query in severity, scope and category where the query has them
EnumsMatch(d) ==
  /\ (Has("severity") => d.severity = params.severity)
  /\ (Has("scope") => d.scope = params.scope)
  /\ (Has("category") => d.category = params.category)

ComponentMatches(d) ==
  "component" \in DOMAIN d /\ SameText(d.component, params.component)

\* d passes the structured filters, a component filter counting whenever the
\* query has the property
StructuredMatchPresent(d) ==
  EnumsMatch(d) /\ (Has("component") => ComponentMatches(d))

\* d passes the structured filters, a component filter counting when the query
\* has the property and it is not the empty string
StructuredMatchNonEmpty(d) ==
  EnumsMatch(d) /\ (Has("component") /\ params.component # <<>> => ComponentMatches(d))

\* d passes the keyword filter
KeywordMatch(d) == Has("keyword") => KeywordScoreOf(d, params.keyword) > 0

NoFilter == DOMAIN params \subseteq {"limit"}

\* the position of a letter in the code-unit order: upper case before lower case
CodeUnit(c) == IF IsUpper(c) THEN LetterIndex[c] ELSE Len(UpperLetters) + LetterIndex[c]

\* a comes strictly before b in the ordinal (code-unit) lexicographic order
OrdinalBefore(a, b) ==
  \E k \in 1..(Len(a) + 1) :
    /\ k <= Len(b)
    /\ \A i \in 1..(k - 1) : a[i] = b[i]
    /\ (k = Len(a) + 1 \/ CodeUnit(a[k]) < CodeUnit(b[k]))

\* min(limit or 10, 50), the effective limit as the specification words it
ClaimedLimit ==
  Min(IF Has("limit") /\ params.limit # 0 THEN params.limit ELSE 10, 50)

\* C1: a query with no component, severity, scope, category or keyword excludes
\* no registry entry: the result has exactly min(effective limit, registry size)
\* entries, and every registry entry when the effective limit is at least the
\* registry size.
C1_EmptyQueryReturnsAll ==
  Done /\ NoFilter =>
    /\ Len(result) = Min(ClaimedLimit, Len(Registry))
    /\ (ClaimedLimit >= Len(Registry) => Returned = Methods)

C3_KeywordScoreZeroExcludes ==
  Done /\ Has("keyword") =>
    /\ \A r \in Returned : KeywordScoreOf(r, params.keyword) > 0
    /\ \A d \in Methods :
         /\ (StructuredMatchNonEmpty(d) /\ KeywordScoreOf(d, params.keyword) > 0
               => d \in Candidates)
         /\ (KeywordScoreOf(d, params.keyword) = 0 => d \notin Candidates)

\* a keyword search has kept one descriptor and discarded, for its keyword score
\* of 0 alone, another that passes the structured filters
C3_Witness ==
  /\ Done
  /\ Has("keyword")
  /\ Candidates # {}
  /\ \E d \in Methods :
       /\ StructuredMatchNonEmpty(d)
       /\ KeywordScoreOf(d, params.keyword) = 0
       /\ d \notin Candidates

C5_RankedByScoreThenName ==
  Done =>
    /\ Len(result) <= Len(matches)
    /\ \A i \in DOMAIN result : result[i] = matches[i].method
    /\ \A i, j \in DOMAIN result :
         i < j =>
           \/ matches[i].score > matches[j].score
           \/ /\ matches[i].score = matches[j].score
              /\ OrdinalBefore(ResultNames[i], ResultNames[j])

\* a result holds two descriptors of different score and two of equal score
C5_Witness ==
  /\ Done
  /\ \E i, j \in DOMAIN result : matches[i].score > matches[j].score
  /\ \E i, j \in DOMAIN result : i < j /\ matches[i].score = matches[j].score

\* C6: a query whose limit is 0 or negative returns the list the same query
\* returns with limit 10.
C6_NonPositiveLimitIsTen ==
  Done /\ Has("limit") /\ params.limit <= 0 =>
    result = Refs(searchResult(Registry, [params EXCEPT !["limit"] = 10]))

\* C7: with the limit absent (L = 10) or a positive integer (L = limit) the
\* result is the first min(L, 50) candidates of the ranking; a result never has
\* more than 50 entries.
C7_LimitTakesPrefix ==
  Done =>
    /\ Len(result) <= 50
    /\ (~Has("limit") \/ params.limit > 0 =>
          LET L == IF Has("limit") THEN params.limit ELSE 10
              n == Min(Min(L, 50), Len(matches))
          IN result = [i \in 1..n |-> matches[i].method])

\* a search with limit 1000 over more than 50 candidates has returned 50
C7_Witness ==
  /\ Done
  /\ Has("limit") /\ params.limit = 1000
  /\ Len(matches) > 50
  /\ Len(result) = 50

\* C8: for a non-empty keyword the score search gives a candidate is the filter
\* bonus plus 100 for a name equal to the keyword (else 80 for a name containing
\* it), 20 per keyword entry that equals, contains or is contained by it, 10 for
\* a description containing it, 15 for a component containing it and 5 for a
\* word of the name that contains or is contained by it, all up to case; the
\* descriptors dropped for the keyword are those for which that sum is 0.
C8_KeywordScoreFormula ==
  Done /\ Has("keyword") /\ params.keyword # <<>> =>
    /\ \A i \in DOMAIN matches :
         matches[i].score
           = FilterBonus + KeywordScoreOf(Registry[matches[i].method], params.keyword)
    /\ \A d \in Methods :
         StructuredMatchNonEmpty(d) /\ d \notin Candidates
           => KeywordScoreOf(d, params.keyword) = 0

\* a keyword equal to a method name up to case has scored 100 for the name, 20
\* for a keyword entry it contains and 5 for a word of the name
C8_Witness ==
  /\ Done
  /\ Has("keyword") /\ params.keyword = kwGetPods
  /\ \E i \in DOMAIN matches :
       /\ SameText(Registry[matches[i].method].name, kwGetPods)
       /\ matches[i].score = FilterBonus + 125

CriticalClusterQuery == [severity |-> "critical", scope |-> "cluster"]

nameGetDegradedOperators ==
  <<"g","e","t","D","e","g","r","a","d","e","d","O","p","e","r","a","t","o","r","s">>
nameGetEtcdHealth == <<"g","e","t","E","t","c","d","H","e","a","l","t","h">>
nameGetFailingPods == <<"g","e","t","F","a","i","l","i","n","g","P","o","d","s">>

\* C9: against the eleven-entry registry, {severity: critical, scope: cluster}
\* returns exactly getDegradedOperators then getEtcdHealth, each of score 60.
C9_CriticalClusterExample ==
  Done /\ registry = "ANALYSIS_METHODS" /\ params = CriticalClusterQuery =>
    /\ ResultNames = <<nameGetDegradedOperators, nameGetEtcdHealth>>
    /\ [i \in DOMAIN matches |-> matches[i].score] = <<60, 60>>

\* that query has been answered against the eleven-entry registry
C9_Witness ==
  /\ Done
  /\ registry = "ANALYSIS_METHODS" /\ Len(Registry) = 11
  /\ params = CriticalClusterQuery
  /\ Len(result) = 2

FailingQuery == [keyword |-> kwFailing]

\* C10: against the eleven-entry registry, {keyword: failing} returns
\* getFailingPods first, with a score strictly higher than that of every other
\* returned descriptor.
C10_FailingExample ==
  Done /\ registry = "ANALYSIS_METHODS" /\ params = FailingQuery =>
    /\ result # <<>>
    /\ ResultNames[1] = nameGetFailingPods
    /\ \A i \in DOMAIN result :
         /\ result[i] = matches[i].method
         /\ (i > 1 => matches[1].score > matches[i].score)

\* that query has been answered with getFailingPods and another partial match
C10_Witness ==
  /\ Done
  /\ registry = "ANALYSIS_METHODS"
  /\ params = FailingQuery
  /\ Len(result) > 1
  /\ ResultNames[1] = nameGetFailingPods

----------------------------------------------------------------------------
(* The statements about the type expander                                  *)

\* the type call has answered
Answered == pc = "done" /\ ~response.pending

\* the call handed a list of names to the expander
Expanding == pc # "call" /\ "typeNames" \in DOMAIN args /\ args.typeNames.isArray

\* the list of names the call requests
Requested == args.typeNames.items

\* the depth the expander is given
GivenDepth == IF "depth" \in DOMAIN args /\ args.depth # 0 THEN args.depth ELSE 1

WithExamples == "includeExamples" \in DOMAIN args /\ args.includeExamples

\* the names of the output list, in order
OutputNames == [i \in DOMAIN types |-> types[i].name]

\* the types the map defines, and the names a defined type refers to
Defined == DOMAIN TypeMap.cases

RefersTo(n) == IF n \in DOMAIN TypeMap.nested THEN Range(TypeMap.nested[n]) ELSE {}

\* the part of a name before its first dot
BeforeFirstDot(s) ==
  LET dots == {i \in DOMAIN s : s[i] = "."}
  IN IF dots = {} THEN s
     ELSE SubSeq(s, 1, (CHOOSE i \in dots : \A j \in dots : i <= j) - 1)

\* C12: the expander terminates for every type map, list of names and depth,
\* cycles of references included; with A and B referring to each other,
\* expanding [A] to depth 3 gives exactly [A, B]
C12_ExpandTerminates ==
  /\ <>(pc = "done")
  /\ [](Answered /\ typeMap = "cycle" /\ Expanding /\ Requested = <<tA>> /\ GivenDepth = 3
          => OutputNames = <<tA, tB>>)

C12_Witness ==
  /\ Answered /\ typeMap = "cycle" /\ Expanding
  /\ Requested = <<tA>> /\ GivenDepth = 3
  /\ OutputNames = <<tA, tB>>

\* C13: one call outputs each type at most once, whatever names are repeated,
\* dotted or reached by several paths, and at every step every type of the
\* output is in the set of processed names
C13_NoDuplicates ==
  /\ \A i, j \in DOMAIN types : types[i].name = types[j].name => i = j
  /\ \A i \in DOMAIN types : types[i].name \in processedTypes

\* a call that repeats a name, plain and dotted, has answered; and so has one
\* in which a type is reached by two paths
C13_Witness ==
  /\ Answered /\ Expanding
  /\ \/ /\ typeMap = "typeGenerator" /\ Requested = <<tPod, tPodStatus>>
        /\ OutputNames = <<tPod, tContainer, tCondition>>
     \/ /\ typeMap = "shared" /\ Requested = <<tA, tA>> /\ Len(types) = 4

\* the defined types at most k references away from a requested name, every
\* type on the way being defined
RECURSIVE WithinHops(_)
WithinHops(k) ==
  IF k < 0 THEN {}
  ELSE IF k = 0 THEN {BeforeFirstDot(Requested[i]) : i \in DOMAIN Requested} \cap Defined
  ELSE LET near == WithinHops(k - 1)
       IN near \cup (UNION {RefersTo(n) : n \in near} \cap Defined)

\* C14: every defined type that a requested name reaches by at most maxDepth
\* references through defined types is in the output (stated of the types of
\* typeGenerator.ts)
C14_AllWithinDepthIncluded ==
  Answered /\ Expanding /\ GivenDepth >= 1 /\ typeMap = "typeGenerator"
    => WithinHops(GivenDepth) \subseteq Range(OutputNames)

\* C15: no type of the output is more than maxDepth references away from every
\* requested name; on the chain A, B, C expanding [A] gives [A, B] at depth 1
\* and [A, B, C] at depth 2
C15_NothingBeyondDepth ==
  /\ Expanding /\ GivenDepth >= 1 => Range(OutputNames) \subseteq WithinHops(GivenDepth)
  /\ Answered /\ Expanding /\ typeMap = "chain" /\ Requested = <<tA>>
       => /\ GivenDepth = 1 => OutputNames = <<tA, tB>>
          /\ GivenDepth = 2 => OutputNames = <<tA, tB, tC>>

C15_Witness ==
  /\ Answered /\ Expanding /\ typeMap = "chain" /\ Requested = <<tA>>
  /\ GivenDepth = 2
  /\ OutputNames = <<tA, tB, tC>>

\* the depth of the interface: 1 when none is given, and a given depth brought
\* into 1..3
ClampedDepth ==
  IF "depth" \notin DOMAIN args THEN 1
  ELSE IF args.depth < 1 THEN 1
  ELSE IF args.depth > 3 THEN 3
  ELSE args.depth

\* C16: the tool expands to depth 1 when no depth is given and brings a given
\* depth into 1..3: a depth below 1 answers as depth 1 does, a depth above 3 as
\* depth 3 does
C16_DepthClamped ==
  Answered /\ Expanding
    => types = getTypeDefinitions(Requested, ClampedDepth, WithExamples)

\* the answer is the error of the input validation
ValidationError ==
  /\ response.isError
  /\ includes(response.text, textRequired)

\* C17: a call whose typeNames is missing or empty fails with the error of the
\* input validation and the expander is not invoked: an empty list is never
\* handed to the expander and never answered with 'no types found'
C17_EmptyTypeNamesRejected ==
  /\ pc = "expand" => Requested # <<>>
  /\ Answered /\ ("typeNames" \notin DOMAIN args \/ args.typeNames.items = <<>>)
       => ValidationError /\ ~includes(response.text, textNoTypes)

\* a requested name resolves when the part before its first dot is defined
Resolves(n) == BeforeFirstDot(n) \in Defined

\* C18: when no requested name resolves the expander returns the empty list
\* without failing and the tool answers with an error whose message names
\* every known type; whenever a definition resolves the answer is no error
C18_NothingResolvedIsError ==
  /\ Answered /\ Expanding /\ (\A i \in DOMAIN Requested : ~Resolves(Requested[i]))
       => /\ types = <<>>
          /\ response.isError
          /\ includes(response.text, textNoTypes)
          /\ \A n \in Defined : includes(response.text, n)
  /\ Answered /\ Expanding /\ (\E i \in DOMAIN Requested : Resolves(Requested[i]))
       => ~response.isError /\ response.types = types /\ types # <<>>

C18_Witness ==
  /\ Answered /\ Expanding
  /\ typeMap = "typeGenerator"
  /\ Requested = <<tNoSuchType, tNoSuchType>>
  /\ response.isError

\* C19: an unknown name added to the request at any position leaves the output
\* as it is without that name, and brings no error when another name resolves
C19_UnknownNamesIgnored ==
  Answered /\ Expanding
    => /\ types = getTypeDefinitions(SelectSeq(Requested, Resolves), GivenDepth, WithExamples)
       /\ (\E i \in DOMAIN Requested : Resolves(Requested[i])) => ~response.isError

C19_Witness ==
  /\ Answered /\ Expanding
  /\ typeMap = "typeGenerator"
  /\ Requested = <<tNoSuchType, tPod>>
  /\ OutputNames = <<tPod, tContainer, tCondition>>
  /\ ~response.isError

\* C20: only the part of a name before its first dot is used: a request with
\* T.suffix in place of T gives the same output at every depth
C20_DottedSuffixIgnored ==
  Answered /\ Expanding
    => types = getTypeDefinitions([i \in DOMAIN Requested |-> BeforeFirstDot(Requested[i])],
                                  GivenDepth, WithExamples)

C20_Witness ==
  /\ Answered /\ Expanding
  /\ typeMap = "typeGenerator"
  /\ Requested = <<tPodStatus>>
  /\ GivenDepth = 2
  /\ OutputNames = <<tPod, tContainer, tCondition>>

\* the reference list of a type, in its order
ReferenceList(n) == IF n \in DOMAIN TypeMap.nested THEN TypeMap.nested[n] ELSE <<>>

\* the depth-first pre-order of the specification: a name not met before is
\* noted; if it is defined it is put out and, while the depth allows, its
\* references are walked in their order, each with its own descendants, before
\* anything else.  walk is [out, met]
RECURSIVE PreOrderOf(_, _, _)
RECURSIVE PreOrderOfAll(_, _, _)
PreOrderOf(walk, n, hops) ==
  IF n \in walk.met THEN walk
  ELSE LET noted == [out |-> IF n \in Defined THEN Append(walk.out, n) ELSE walk.out,
                     met |-> walk.met \cup {n}]
       IN IF n \in Defined /\ hops < GivenDepth
            THEN PreOrderOfAll(noted, ReferenceList(n), hops + 1)
            ELSE noted

PreOrderOfAll(walk, names, hops) ==
  IF names = <<>> THEN walk
  ELSE PreOrderOfAll(PreOrderOf(walk, BeforeFirstDot(Head(names)), hops), Tail(names), hops)

\* C21: the output is in the depth-first pre-order of the traversal: each newly
\* processed requested type is followed at once by the newly discovered types
\* its references reach, in the order of its reference list and each with its
\* own descendants, before the types of the next requested name
C21_OutputIsPreOrder ==
  Answered /\ Expanding
    => OutputNames = PreOrderOfAll([out |-> <<>>, met |-> {}], Requested, 0).out

\* a call in which a reference (Node) brings its own descendant (Condition)
\* before the next reference (Pod), and the second requested name comes last
C21_Witness ==
  /\ Answered /\ Expanding
  /\ typeMap = "typeGenerator"
  /\ Requested = <<tMustGatherAnalyzer, tNoSuchType>>
  /\ GivenDepth = 2
  /\ OutputNames = <<tMustGatherAnalyzer, tMustGatherConfig, tNode, tCondition, tPod,
                     tContainer, tEvent, tEtcdHealth, tClusterOperator>>

\* C22: a descriptor of the output carries an example value only when
\* includeExamples is true: when it is false or not given, no descriptor of the
\* output has one, be it requested or reached through a reference
C22_ExamplesOnlyOnRequest ==
  /\ Expanding /\ ~WithExamples => \A i \in DOMAIN types : ~types[i].examples
  /\ Answered /\ ~WithExamples => \A i \in DOMAIN response.types : ~response.types[i].examples

\* a call without includeExamples has put out a requested type and the types
\* it refers to
C22_Witness ==
  /\ Answered /\ Expanding /\ ~WithExamples
  /\ typeMap = "typeGenerator"
  /\ Requested = <<tPod>>
  /\ OutputNames = <<tPod, tContainer, tCondition>>
  /\ response.types = types

\* the result of a query that has the keyword `degraded` and nothing else
DegradedQuery == [keyword |-> kwDegraded]

\* C24: against the eleven-entry registry the query {keyword: degraded} returns
\* getDegradedOperators and no other method
C24_DegradedExample ==
  Done /\ registry = "ANALYSIS_METHODS" /\ params = DegradedQuery
    => ResultNames = <<nameGetDegradedOperators>>

C24_Witness ==
  /\ Done /\ registry = "ANALYSIS_METHODS" /\ params = DegradedQuery
  /\ Len(result) = 1
  /\ ResultNames[1] = nameGetDegradedOperators

\* C26: every requested name whose part before the first dot has a definition
\* is in the output, whatever the depth and whatever is requested before or
\* after it
C26_RequestedAlwaysIncluded ==
  Answered /\ Expanding
    => \A i \in DOMAIN Requested :
         Resolves(Requested[i]) => BeforeFirstDot(Requested[i]) \in Range(OutputNames)

\* a dotted name requested after a type that refers to its base, at a depth
\* that lets nothing be expanded
C26_Witness ==
  /\ Answered /\ Expanding
  /\ typeMap = "typeGenerator"
  /\ Requested = <<tMustGatherAnalyzer, tPodStatus>>
  /\ GivenDepth = -1
  /\ OutputNames = <<tMustGatherAnalyzer, tPod>>

\* the names a call with the same request puts out at another depth
OutputAtDepth(d) ==
  LET out == getTypeDefinitions(Requested, d, WithExamples)
  IN {out[i].name : i \in DOMAIN out}

WithKeyword == Has("keyword") /\ params.keyword # <<>>

\* the keyword score of the i-th candidate of the ranking, 0 without keyword
KeywordPart(i) ==
  IF WithKeyword THEN KeywordScoreOf(Registry[matches[i].method], params.keyword) ELSE 0

\* the bonus of the claim: 50 for a present component, 30 for each present
\* severity, scope and category
PresentBonus ==
    (IF Has("component") THEN 50 ELSE 0)
  + (IF Has("severity") THEN 30 ELSE 0)
  + (IF Has("scope") THEN 30 ELSE 0)
  + (IF Has("category") THEN 30 ELSE 0)

\* the results are ordered by keyword score and name alone, and by name alone
\* when the query has no keyword
OrderedByKeywordAndName ==
  /\ \A i, j \in DOMAIN result :
       i < j =>
         \/ KeywordPart(i) > KeywordPart(j)
         \/ /\ KeywordPart(i) = KeywordPart(j)
            /\ OrdinalBefore(ResultNames[i], ResultNames[j])
  /\ ~WithKeyword
       => \A i, j \in DOMAIN result : i < j => OrdinalBefore(ResultNames[i], ResultNames[j])

ResultForLimit(k) == Refs(searchResult(Registry, ("limit" :> k) @@ params))

IsPrefix(s, t) == Len(s) <= Len(t) /\ \A i \in DOMAIN s : s[i] = t[i]

\* C29: with the filters and the keyword fixed, the result for limit k is a
\* prefix of the result for limit k' whenever 1 <= k <= k': a higher limit only
\* appends entries of lower rank and neither reorders nor removes earlier ones
C29_HigherLimitExtends ==
  Done /\ Has("limit") /\ params.limit >= 1
    => \A k \in Limits : k >= params.limit => IsPrefix(result, ResultForLimit(k))

\* a search with limit 10 has returned ten methods and the same search with
\* limit 50 returns more
C29_Witness ==
  /\ Done /\ Has("limit") /\ params.limit = 10
  /\ Len(result) = 10
  /\ Len(ResultForLimit(50)) > 10
  /\ IsPrefix(result, ResultForLimit(50))

----------------------------------------------------------------------------
(* The statements about the server                                         *)

\* the request is a call of the search tool, of the type tool, of a tool the
\* server does not know
SearchCall == request = ToolCall(searchAnalysisName(server))

TypeCall == request = ToolCall(getTypeDefinitionName(server))

UnknownCall == request.kind = "tool" /\ ~SearchCall /\ ~TypeCall

C25_TypeResourceComplete ==
  Done /\ request = ResourceRead(uriTypes) /\ typeMap = "typeGenerator"
    => /\ ~response.thrown /\ ~response.isError
       /\ Len(getAllTypeNames) = 9
       /\ \A k \in DOMAIN getAllTypeNames :
            Cardinality({i \in DOMAIN response.types :
                           response.types[i].name = getAllTypeNames[k]}) = 1
       /\ Len(response.types) = 9

C25_Witness ==
  /\ Done /\ request = ResourceRead(uriTypes) /\ typeMap = "typeGenerator"
  /\ Len(response.types) = 9
  /\ response.types[1].name = tMustGatherAnalyzer

StartsWith(s, t) == Len(t) <= Len(s) /\ SubSeq(s, 1, Len(t)) = t

====
